---- MODULE Spec2Model ----
(***************************************************************************)
(* Model of avito.py: link discovery over paginated listing pages          *)
(* (get_links), the per-page browser protocol (fetch_page_with_selenium),  *)
(* record construction (parse_publication) and the orchestrating loop      *)
(* (main) with its try/except/finally structure.                           *)
(*                                                                         *)
(* A URL or hyperlink target is a sequence of tokens.  "/" "?" "_" are the *)
(* single characters, "1" and "2" are digits, ".htm" is the literal        *)
(* suffix, "https:" is the scheme, "www.avito.ma" the host, and "a" "x"    *)
(* are runs of letters.                                                    *)
(***************************************************************************)
EXTENDS Integers, Sequences, FiniteSets, TLC

\* ---------------------------------------------------------------- bounds
\* MAX_PAGES and MAX_LINKS are the configuration values of avito.py:26-27
\* (10 and 300), scaled down so that both limits are reached.
MAX_PAGES == 3
MAX_LINKS == 2
\* Largest number of anchors a listing page holds.
MaxAnchors == 2
\* Largest number of equipment images a poll can count.
MaxCount == 2
\* Largest number of equipment images the final query returns.
MaxImgs == 2

\* ------------------------------------------------------ program constants
\* for _ in range(20): heading polls
H1_POLLS == 20
\* for _ in range(10): equipment-count polls
EQUIP_POLLS == 10

BASE_URL == <<"https:", "/", "/", "www.avito.ma">>

\* ------------------------------------------------------------ input sets
Digits == {"1", "2"}

\* Hyperlink targets the listing pages may carry.
Hrefs ==
  { <<"/", "a", "_", "1", ".htm">>,
    <<"/", "a", "_", "1", ".htm", "?", "x">>,
    <<"/", "a">>,
    <<"a", "_", "1", ".htm">>,
    <<"https:", "/", "/", "www.avito.ma", "/", "a", "_", "1", ".htm">>,
    <<"/", "a", "?", "x", "_", "1", ".htm">>,
    <<"/", "a", "_", "1", ".htm", "?", "x", "_", "2", ".htm">> }

\* alt attributes of equipment images; "" stands for a missing or empty alt.
Alts == {"", "wifi", "garage"}

\* What a collaborator call can do: return, raise an Exception, or raise a
\* BaseException that is no Exception (KeyboardInterrupt, SystemExit).
Outcomes == {"ok", "exc", "abort"}

NoHref == <<>>

VARIABLES
  pc,          \* position in main() and the functions it calls
  page,        \* get_links: loop variable
  links,       \* get_links: result list; main: the discovered links
  new_found,   \* get_links: links added by the current page
  scanned,     \* get_links: anchors of the current page scanned so far
  href,        \* get_links: the raw target of the anchor last scanned
  fetches,     \* number of requests.get calls issued
  glExit,      \* how the page loop of get_links ended: "zero", "error", "exhausted" ("none": not yet)
  results,     \* main: collected records
  driver,      \* "none", "open", "closed"
  browsers,    \* browser processes launched by webdriver.Chrome
  quits,       \* number of driver.quit calls
  i,           \* main: 1-based index of the current link
  attempted,   \* indices of the links handed to parse_publication, in order
  succeeded,   \* indices of the links for which parse_publication returned a record
  navs,        \* number of driver.get calls issued
  pending,     \* an exception is propagating out of the per-link loop
  raised,      \* an exception escaped main()
  saveCalls,   \* number of save_csv calls
  saved,       \* argument of the last save_csv call
  hpolls,      \* fetch_page_with_selenium: heading polls made
  epolls,      \* fetch_page_with_selenium: equipment-count polls made
  prev_count,  \* fetch_page_with_selenium: prev_count
  curr_count,  \* fetch_page_with_selenium: curr_count
  lastSample,  \* the count sampled by the previous poll (0 before the first)
  firstFix,    \* first poll whose count was nonzero and equal to the previous sample (0: none)
  equipments,  \* fetch_page_with_selenium: equipments
  failedStep,  \* the step of the current link that raised an Exception last ("none": none did)
  readImgs,    \* the images of the final query whose alt was read
  paced,       \* a pacing delay has elapsed since the last request (page fetch or navigation)
  call,        \* the function under evaluation: "main", or a function called on its own
  arg,         \* the argument of a function called on its own
  ret,         \* what it returned
  returned     \* whether it has returned

vars == << pc, page, links, new_found, scanned, href, fetches, glExit, results, driver,
           browsers, quits, i, attempted, succeeded, navs, pending, raised,
           saveCalls, saved, hpolls, epolls, prev_count, curr_count,
           lastSample, firstFix, equipments, failedStep, readImgs, paced,
           call, arg, ret, returned >>

glVars == << page, links, new_found, scanned, href, fetches, glExit >>
mainVars == << results, driver, browsers, quits, i, attempted, succeeded,
               navs, pending, raised, saveCalls, saved >>
fetchVars == << hpolls, epolls, prev_count, curr_count, lastSample, firstFix,
                equipments >>
ghostVars == << failedStep, readImgs, paced >>
callVars == << call, arg, ret, returned >>

\* ----------------------------------------------------------- pure helpers
InSeq(x, s) == \E k \in 1..Len(s) : s[k] = x

SeqsUpTo(S, n) == UNION { [1..k -> S] : k \in 0..n }

\* str.startswith("/")
StartsWithSlash(h) == Len(h) > 0 /\ h[1] = "/"

\* urljoin(BASE_URL, href) for a target that starts with "/": a target that
\* starts with "//" keeps its own host and takes the base's scheme, any other
\* replaces the base's (empty) path.
urljoin(base, h) ==
  IF Len(h) >= 2 /\ h[2] = "/"
  THEN <<base[1]>> \o h
  ELSE base \o h

\* re.search(r"_\d+\.htm$", href)
MatchesDetail(h) ==
  \E j \in 1..Len(h) :
     /\ h[j] = "_"
     /\ j + 1 <= Len(h) - 1
     /\ \A k \in (j + 1)..(Len(h) - 1) : h[k] \in Digits
     /\ h[Len(h)] = ".htm"

\* href.split("?")[0]
SplitQuery(h) ==
  IF \E j \in 1..Len(h) : h[j] = "?"
  THEN LET q == CHOOSE j \in 1..Len(h) :
                   h[j] = "?" /\ \A k \in 1..(j - 1) : h[k] # "?"
       IN SubSeq(h, 1, q - 1)
  ELSE h

\* if href.startswith("/"): href = urljoin(BASE_URL, href)
Resolve(h) == IF StartsWithSlash(h) THEN urljoin(BASE_URL, h) ELSE h

\* Faulty variant of ScanOne: the membership test is missing.
ScanOneNoDedup(ls, nf, h) ==
  LET r == Resolve(h) IN
  IF MatchesDetail(r)
  THEN <<Append(ls, SplitQuery(r)), nf + 1>>
  ELSE <<ls, nf>>

\* if re.search(...): href = href.split("?")[0]; if href not in links: append.
\* The pair (links, new_found) after one anchor.
ScanOne(ls, nf, h) ==
  LET r == Resolve(h) IN
  IF MatchesDetail(r)
  THEN LET u == SplitQuery(r) IN
       IF InSeq(u, ls) THEN <<ls, nf>> ELSE <<Append(ls, u), nf + 1>>
  ELSE <<ls, nf>>

\* if len(links) >= MAX_LINKS: break
CapReached(ls) == Len(ls) >= MAX_LINKS

\* Faulty variant of StopEarly: the early stop is missing.
StopEarlyNever(nf) == FALSE

\* if new_found == 0: break
StopEarly(nf) == nf = 0

\* alt and alt not in equipments: equipments.append(alt), over the images read
RECURSIVE CollectAlts(_, _)
CollectAlts(alts, acc) ==
  IF alts = <<>>
  THEN acc
  ELSE CollectAlts(Tail(alts),
                   IF Head(alts) # "" /\ ~InSeq(Head(alts), acc)
                   THEN Append(acc, Head(alts))
                   ELSE acc)

\* parse_publication: the record built for a url (the fields main() relies on)
Record(url, eq) == [url |-> url, equipments |-> eq]

\* results.append(data)
Collect(rs, data) == Append(rs, data)

\* Faulty variant of FixedPoint: the nonzero test is missing.
FixedPointAnyCount(curr, prev) == curr = prev

\* curr_count > 0 and curr_count == prev_count
FixedPoint(curr, prev) == curr > 0 /\ curr = prev

\* ------------------------------------------------------------------ Init
\* The variables of main() before its first statement.
MainStart ==
  /\ page = 1
  /\ links = <<>>
  /\ new_found = 0
  /\ scanned = 0
  /\ href = NoHref
  /\ fetches = 0
  /\ glExit = "none"
  /\ results = <<>>
  /\ driver = "none"
  /\ browsers = 0
  /\ quits = 0
  /\ i = 0
  /\ attempted = <<>>
  /\ succeeded = <<>>
  /\ navs = 0
  /\ pending = FALSE
  /\ raised = FALSE
  /\ saveCalls = 0
  /\ saved = <<>>
  /\ hpolls = 0
  /\ epolls = 0
  /\ prev_count = 0
  /\ curr_count = 0
  /\ lastSample = 0
  /\ firstFix = 0
  /\ equipments = <<>>
  /\ failedStep = "none"
  /\ readImgs = <<>>
  /\ paced = FALSE

NoValue == <<>>

Init ==
  /\ pc = "get_links"
  /\ MainStart
  /\ call = "main"
  /\ arg = NoValue
  /\ ret = NoValue
  /\ returned = FALSE

\* ------------------------------------------------------------- get_links
\* Faulty variant of GetLinksFetch: a failed request is skipped over
\* (continue) instead of ending the page loop.
GetLinksFetchContinues ==
  /\ pc = "get_links"
  /\ \E o \in Outcomes :
       /\ fetches' = fetches + 1
       /\ IF o = "ok"
          THEN /\ new_found' = 0
               /\ scanned' = 0
               /\ pc' = "scan"
               /\ UNCHANGED << page, glExit, raised >>
          ELSE IF o = "exc"
          THEN /\ pc' = IF page = MAX_PAGES THEN "main" ELSE "get_links"
               /\ page' = IF page = MAX_PAGES THEN page ELSE page + 1
               /\ glExit' = "error"
               /\ UNCHANGED << new_found, scanned, raised >>
          ELSE /\ pc' = "done"
               /\ raised' = TRUE
               /\ UNCHANGED << page, new_found, scanned, glExit >>
  /\ UNCHANGED << links, href >>
  /\ UNCHANGED << results, driver, browsers, quits, i, attempted, succeeded,
                  navs, pending, saveCalls, saved >>
  /\ UNCHANGED fetchVars
  /\ paced' = FALSE
  /\ UNCHANGED << failedStep, readImgs >>
  /\ UNCHANGED callVars

\* One iteration of "for page in range(1, MAX_PAGES + 1)": the request.
\* requests.get / raise_for_status raising an Exception breaks the loop; a
\* BaseException escapes get_links and main.
GetLinksFetch ==
  /\ pc = "get_links"
  /\ \E o \in Outcomes :
       /\ fetches' = fetches + 1
       /\ IF o = "ok"
          THEN /\ new_found' = 0
               /\ scanned' = 0
               /\ pc' = "scan"
               /\ UNCHANGED << glExit, raised >>
          ELSE IF o = "exc"
          THEN /\ pc' = "main"
               /\ glExit' = "error"
               /\ UNCHANGED << new_found, scanned, raised >>
          ELSE /\ pc' = "done"
               /\ raised' = TRUE
               /\ UNCHANGED << new_found, scanned, glExit >>
  /\ UNCHANGED << page, links, href >>
  /\ UNCHANGED << results, driver, browsers, quits, i, attempted, succeeded,
                  navs, pending, saveCalls, saved >>
  /\ UNCHANGED fetchVars
  /\ paced' = FALSE
  /\ UNCHANGED << failedStep, readImgs >>
  /\ UNCHANGED callVars

\* One iteration of "for a in soup.find_all('a', href=True)" on target h.
GetLinksScan ==
  /\ pc = "scan"
  /\ scanned < MaxAnchors
  /\ \E h \in Hrefs :
       LET r == ScanOne(links, new_found, h) IN
       /\ href' = h
       /\ links' = r[1]
       /\ new_found' = r[2]
       /\ scanned' = scanned + 1
       /\ pc' = IF CapReached(r[1]) THEN "page_end" ELSE "scan"
  /\ UNCHANGED << page, fetches, glExit >>
  /\ UNCHANGED mainVars
  /\ UNCHANGED fetchVars
  /\ UNCHANGED ghostVars
  /\ UNCHANGED callVars

\* The anchor loop runs out of anchors.
GetLinksScanEnd ==
  /\ pc = "scan"
  /\ pc' = "page_end"
  /\ UNCHANGED glVars
  /\ UNCHANGED mainVars
  /\ UNCHANGED fetchVars
  /\ UNCHANGED ghostVars
  /\ UNCHANGED callVars

\* After the anchor loop: the early stop, or the delay and the next page.
GetLinksPageEnd ==
  /\ pc = "page_end"
  /\ IF StopEarly(new_found)
     THEN /\ pc' = "main"
          /\ glExit' = "zero"
          /\ page' = page
     ELSE IF page = MAX_PAGES
     THEN /\ pc' = "main"
          /\ glExit' = "exhausted"
          /\ page' = page
     ELSE /\ pc' = "get_links"
          /\ glExit' = glExit
          /\ page' = page + 1
  /\ href' = NoHref
  /\ scanned' = 0
  /\ new_found' = IF pc' = "main" THEN new_found ELSE 0
  /\ UNCHANGED << links, fetches >>
  /\ UNCHANGED mainVars
  /\ UNCHANGED fetchVars
  /\ paced' = (IF StopEarly(new_found) THEN paced ELSE TRUE)
  /\ UNCHANGED << failedStep, readImgs >>
  /\ UNCHANGED callVars

\* ------------------------------------------------------------------ main
\* links = get_links(); if not links: return; results = []
MainCheckLinks ==
  /\ pc = "main"
  /\ pc' = IF links = <<>> THEN "done" ELSE "create_driver"
  /\ results' = <<>>
  /\ page' = 1
  /\ new_found' = 0
  /\ glExit' = "none"
  /\ UNCHANGED << links, scanned, href, fetches >>
  /\ UNCHANGED << driver, browsers, quits, i, attempted, succeeded, navs,
                  pending, raised, saveCalls, saved >>
  /\ UNCHANGED fetchVars
  /\ paced' = FALSE
  /\ UNCHANGED << failedStep, readImgs >>
  /\ UNCHANGED callVars

\* create_driver: webdriver.Chrome(...) launches the browser.
CreateDriverLaunch ==
  /\ pc = "create_driver"
  /\ \E o \in {"ok", "exc"} :
       IF o = "ok"
       THEN /\ browsers' = browsers + 1
            /\ pc' = "cdp"
            /\ raised' = raised
       ELSE /\ browsers' = browsers
            /\ pc' = "done"
            /\ raised' = TRUE
  /\ UNCHANGED glVars
  /\ UNCHANGED << results, driver, quits, i, attempted, succeeded, navs,
                  pending, saveCalls, saved >>
  /\ UNCHANGED fetchVars
  /\ UNCHANGED ghostVars
  /\ UNCHANGED callVars

\* create_driver: driver.execute_cdp_cmd(...); return driver.
CreateDriverCdp ==
  /\ pc = "cdp"
  /\ \E o \in {"ok", "exc"} :
       IF o = "ok"
       THEN /\ driver' = "open"
            /\ i' = 1
            /\ pc' = "loop"
            /\ raised' = raised
       ELSE /\ driver' = driver
            /\ i' = i
            /\ pc' = "done"
            /\ raised' = TRUE
  /\ UNCHANGED glVars
  /\ UNCHANGED << results, browsers, quits, attempted, succeeded, navs,
                  pending, saveCalls, saved >>
  /\ UNCHANGED fetchVars
  /\ UNCHANGED ghostVars
  /\ UNCHANGED callVars

\* Faulty variant of AfterCall: an Exception ends the loop instead of being
\* skipped over.
AfterCallBreaks(o, next) == IF o = "ok" THEN next ELSE "finally"

\* Position after a step of parse_publication ended with outcome o: an
\* Exception is caught by the per-link except clause, which falls through to
\* the delay; anything else unwinds to the finally clause.
AfterCall(o, next) ==
  IF o = "ok" THEN next ELSE IF o = "exc" THEN "sleep" ELSE "finally"

\* Whether outcome o leaves an exception propagating out of the loop.
Propagates(o) == o = "abort"

\* "for i, link in enumerate(links, 1)": the next link, or the end of the loop.
LoopHead ==
  /\ pc = "loop"
  /\ IF i <= Len(links)
     THEN /\ attempted' = Append(attempted, i)
          /\ pc' = "nav"
     ELSE /\ attempted' = attempted
          /\ pc' = "finally"
  /\ UNCHANGED glVars
  /\ UNCHANGED << results, driver, browsers, quits, i, succeeded, navs,
                  pending, raised, saveCalls, saved >>
  /\ UNCHANGED fetchVars
  /\ UNCHANGED ghostVars
  /\ UNCHANGED callVars

\* Locals of fetch_page_with_selenium that are dead: the loop counters once
\* their loop is left, every local once the call is over.
FetchReset ==
  /\ hpolls' = 0
  /\ epolls' = 0
  /\ prev_count' = 0
  /\ curr_count' = 0
  /\ lastSample' = 0
  /\ firstFix' = 0
  /\ equipments' = <<>>

\* ---------------------------------------------- fetch_page_with_selenium
\* The step recorded as failed after a call of step `step` ended with o.
FailedAt(o, step, prev) ==
  IF o = "exc" THEN step ELSE IF o = "abort" THEN "none" ELSE prev

\* driver.get(url)
Navigate ==
  /\ pc = "nav"
  /\ navs' = navs + 1
  /\ paced' = FALSE
  /\ \E o \in Outcomes :
       /\ pc' = AfterCall(o, "h1")
       /\ pending' = Propagates(o)
       /\ failedStep' = FailedAt(o, "nav", failedStep)
  /\ UNCHANGED glVars
  /\ UNCHANGED << results, driver, browsers, quits, i, attempted, succeeded,
                  raised, saveCalls, saved >>
  /\ UNCHANGED fetchVars
  /\ UNCHANGED readImgs
  /\ UNCHANGED callVars

\* Faulty variant of HeadingPoll: the wait has no bound.
HeadingPollUnbounded ==
  /\ pc = "h1"
  /\ \E o \in Outcomes, found \in BOOLEAN :
       /\ failedStep' = FailedAt(o, "h1", failedStep)
       /\ IF o = "ok"
          THEN /\ hpolls' = hpolls + 1
               /\ pc' = IF found THEN "scroll" ELSE "h1"
               /\ pending' = pending
               /\ UNCHANGED << epolls, prev_count, curr_count, lastSample,
                               firstFix, equipments >>
          ELSE /\ pc' = AfterCall(o, "h1")
               /\ pending' = Propagates(o)
               /\ FetchReset
  /\ UNCHANGED glVars
  /\ UNCHANGED << results, driver, browsers, quits, i, attempted, succeeded,
                  navs, raised, saveCalls, saved >>
  /\ UNCHANGED << readImgs, paced >>
  /\ UNCHANGED callVars

\* One iteration of "for _ in range(20)": find_elements(h1), break or sleep.
HeadingPoll ==
  /\ pc = "h1"
  /\ hpolls < H1_POLLS
  /\ \E o \in Outcomes, found \in BOOLEAN :
       /\ failedStep' = FailedAt(o, "h1", failedStep)
       /\ IF o = "ok"
          THEN /\ hpolls' = hpolls + 1
               /\ pc' = IF found \/ hpolls + 1 = H1_POLLS THEN "scroll" ELSE "h1"
               /\ pending' = pending
               /\ UNCHANGED << epolls, prev_count, curr_count, lastSample,
                               firstFix, equipments >>
          ELSE /\ pc' = AfterCall(o, "h1")
               /\ pending' = Propagates(o)
               /\ FetchReset
  /\ UNCHANGED glVars
  /\ UNCHANGED << results, driver, browsers, quits, i, attempted, succeeded,
                  navs, raised, saveCalls, saved >>
  /\ UNCHANGED << readImgs, paced >>
  /\ UNCHANGED callVars

\* driver.execute_script(scrollTo ...); time.sleep(1)
Scroll ==
  /\ pc = "scroll"
  /\ \E o \in Outcomes :
       /\ pc' = AfterCall(o, "expand")
       /\ pending' = Propagates(o)
       /\ failedStep' = FailedAt(o, "scroll", failedStep)
       /\ FetchReset
  /\ UNCHANGED glVars
  /\ UNCHANGED << results, driver, browsers, quits, i, attempted, succeeded,
                  navs, raised, saveCalls, saved >>
  /\ UNCHANGED << readImgs, paced >>
  /\ UNCHANGED callVars

\* driver.execute_script(click every "Voir plus" button); prev_count = 0
\* (prev_count is 0 on entry)
Expand ==
  /\ pc = "expand"
  /\ \E o \in Outcomes :
       /\ pc' = AfterCall(o, "poll")
       /\ pending' = Propagates(o)
       /\ failedStep' = FailedAt(o, "expand", failedStep)
       /\ IF o = "ok"
          THEN UNCHANGED fetchVars
          ELSE FetchReset
  /\ UNCHANGED glVars
  /\ UNCHANGED << results, driver, browsers, quits, i, attempted, succeeded,
                  navs, raised, saveCalls, saved >>
  /\ UNCHANGED << readImgs, paced >>
  /\ UNCHANGED callVars

\* One iteration of "for _ in range(10)": count the equipment images, break
\* on a fixed point, else remember the count and sleep.
EquipPoll ==
  /\ pc = "poll"
  /\ epolls < EQUIP_POLLS
  /\ \E o \in Outcomes, c \in 0..MaxCount :
       /\ failedStep' = FailedAt(o, "poll", failedStep)
       /\ IF o = "ok"
          THEN /\ epolls' = epolls + 1
               /\ curr_count' = c
               /\ lastSample' = c
               /\ firstFix' = IF firstFix = 0 /\ c > 0 /\ c = lastSample
                              THEN epolls + 1
                              ELSE firstFix
               /\ IF FixedPoint(c, prev_count)
                  THEN /\ prev_count' = prev_count
                       /\ pc' = "extract"
                  ELSE /\ prev_count' = c
                       /\ pc' = IF epolls + 1 = EQUIP_POLLS THEN "extract" ELSE "poll"
               /\ pending' = pending
               /\ UNCHANGED << hpolls, equipments >>
          ELSE /\ pc' = AfterCall(o, "poll")
               /\ pending' = Propagates(o)
               /\ FetchReset
  /\ UNCHANGED glVars
  /\ UNCHANGED << results, driver, browsers, quits, i, attempted, succeeded,
                  navs, raised, saveCalls, saved >>
  /\ UNCHANGED << readImgs, paced >>
  /\ UNCHANGED callVars

\* Faulty variant of Gathered: every non-empty alt is appended.
GatheredNoDedup(read) ==
  LET NonEmpty(a) == a # "" IN SelectSeq(read, NonEmpty)

\* The labels gathered from the images read, in order, before the loop ended
\* or a call raised: equipments is not reset by the except clause.
Gathered(read) == CollectAlts(read, <<>>)

\* try: find_elements(...); for img: get_attribute("alt") ... except Exception
\* The query is made anew: what it finds is independent of curr_count.
\* readImgs' is the sequence of images whose alt was read; failed says that
\* find_elements (nothing is read) or the get_attribute of the next image
\* raised, so that a failure leaves at most MaxImgs - 1 images read.
ExtractEquipments ==
  /\ pc = "extract"
  /\ readImgs' \in SeqsUpTo(Alts, MaxImgs)
  /\ equipments' = Gathered(readImgs')
  /\ \E failed \in BOOLEAN :
       /\ failed => Len(readImgs') < MaxImgs
       /\ failedStep' = IF failed THEN "extract" ELSE failedStep
  /\ pc' = "source"
  /\ hpolls' = 0
  /\ epolls' = 0
  /\ prev_count' = 0
  /\ lastSample' = 0
  /\ firstFix' = 0
  /\ curr_count' = 0
  /\ UNCHANGED glVars
  /\ UNCHANGED mainVars
  /\ UNCHANGED paced
  /\ UNCHANGED callVars

\* html = driver.page_source; parse_publication builds the record, or returns
\* None on an empty document; main appends the record.
PageSource ==
  /\ pc = "source"
  /\ \E o \in Outcomes, empty \in BOOLEAN :
       /\ pc' = AfterCall(o, "sleep")
       /\ pending' = Propagates(o)
       /\ failedStep' = IF o = "ok" /\ empty
                        THEN "source"
                        ELSE FailedAt(o, "source", failedStep)
       /\ IF o = "ok" /\ ~empty
          THEN /\ results' = Collect(results, Record(links[i], equipments))
               /\ succeeded' = Append(succeeded, i)
          ELSE UNCHANGED << results, succeeded >>
  /\ FetchReset
  /\ readImgs' = <<>>
  /\ UNCHANGED glVars
  /\ UNCHANGED << driver, browsers, quits, i, attempted, navs, raised,
                  saveCalls, saved >>
  /\ UNCHANGED paced
  /\ UNCHANGED callVars

\* Faulty variant of Sleep: the delay is missing.
SleepMissing ==
  /\ pc = "sleep"
  /\ i' = i + 1
  /\ pc' = "loop"
  /\ failedStep' = "none"
  /\ UNCHANGED glVars
  /\ UNCHANGED << results, driver, browsers, quits, attempted, succeeded,
                  navs, pending, raised, saveCalls, saved >>
  /\ UNCHANGED fetchVars
  /\ UNCHANGED << readImgs, paced >>
  /\ UNCHANGED callVars

\* time.sleep(random.uniform(1, 2)) at the end of the loop body
Sleep ==
  /\ pc = "sleep"
  /\ \E o \in {"ok", "abort"} :
       IF o = "ok"
       THEN /\ i' = i + 1
            /\ pc' = "loop"
            /\ pending' = pending
            /\ paced' = TRUE
       ELSE /\ i' = i
            /\ pc' = "finally"
            /\ pending' = TRUE
            /\ paced' = paced
  /\ failedStep' = "none"
  /\ UNCHANGED glVars
  /\ UNCHANGED << results, driver, browsers, quits, attempted, succeeded,
                  navs, raised, saveCalls, saved >>
  /\ UNCHANGED fetchVars
  /\ UNCHANGED readImgs
  /\ UNCHANGED callVars

\* Faulty variant of Finally: driver.quit() follows the loop without a
\* finally clause, so a propagating exception skips it.
FinallyOnlyAfterLoop ==
  /\ pc = "finally"
  /\ IF pending
     THEN /\ pc' = "done"
          /\ raised' = TRUE
          /\ UNCHANGED << quits, driver >>
     ELSE /\ quits' = quits + 1
          /\ driver' = "closed"
          /\ \E o \in {"ok", "exc"} :
               /\ pc' = IF o = "ok" THEN "save" ELSE "done"
               /\ raised' = (o = "exc")
  /\ pending' = FALSE
  /\ UNCHANGED glVars
  /\ UNCHANGED << results, browsers, i, attempted, succeeded, navs,
                  saveCalls, saved >>
  /\ UNCHANGED fetchVars
  /\ paced' = FALSE
  /\ UNCHANGED << failedStep, readImgs >>
  /\ UNCHANGED callVars

\* Faulty variant of Finally: the finally clause returns, so save_csv is
\* never reached.
FinallyReturns ==
  /\ pc = "finally"
  /\ quits' = quits + 1
  /\ driver' = "closed"
  /\ pc' = "done"
  /\ raised' = FALSE
  /\ pending' = FALSE
  /\ UNCHANGED glVars
  /\ UNCHANGED << results, browsers, i, attempted, succeeded, navs,
                  saveCalls, saved >>
  /\ UNCHANGED fetchVars
  /\ paced' = FALSE
  /\ UNCHANGED << failedStep, readImgs >>
  /\ UNCHANGED callVars

\* finally: driver.quit(); a propagating exception then leaves main
Finally ==
  /\ pc = "finally"
  /\ quits' = quits + 1
  /\ driver' = "closed"
  /\ \E o \in {"ok", "exc"} :
       IF pending \/ o = "exc"
       THEN /\ pc' = "done"
            /\ raised' = TRUE
       ELSE /\ pc' = "save"
            /\ raised' = raised
  /\ pending' = FALSE
  /\ UNCHANGED glVars
  /\ UNCHANGED << results, browsers, i, attempted, succeeded, navs,
                  saveCalls, saved >>
  /\ UNCHANGED fetchVars
  /\ paced' = FALSE
  /\ UNCHANGED << failedStep, readImgs >>
  /\ UNCHANGED callVars

\* save_csv(results)
SaveCsv ==
  /\ pc = "save"
  /\ saveCalls' = saveCalls + 1
  /\ saved' = results
  /\ \E o \in {"ok", "exc"} : raised' = (o = "exc")
  /\ pc' = "done"
  /\ UNCHANGED glVars
  /\ UNCHANGED << results, driver, browsers, quits, i, attempted, succeeded,
                  navs, pending >>
  /\ UNCHANGED fetchVars
  /\ UNCHANGED ghostVars
  /\ UNCHANGED callVars

Next ==
  \/ GetLinksFetch
  \/ GetLinksScan
  \/ GetLinksScanEnd
  \/ GetLinksPageEnd
  \/ MainCheckLinks
  \/ CreateDriverLaunch
  \/ CreateDriverCdp
  \/ LoopHead
  \/ Navigate
  \/ HeadingPoll
  \/ Scroll
  \/ Expand
  \/ EquipPoll
  \/ ExtractEquipments
  \/ PageSource
  \/ Sleep
  \/ Finally
  \/ SaveCsv

Spec == Init /\ [][Next]_vars

\* The run is sequential: whenever a step is possible, one is taken.
FairSpec == Spec /\ WF_vars(Next)

\* ======================================================================
\* Properties
\* ======================================================================
IsPrefix(s, t) == Len(s) <= Len(t) /\ SubSeq(t, 1, Len(s)) = s

NoDuplicates(s) == \A j, k \in 1..Len(s) : s[j] = s[k] => j = k

Upto(n) == [k \in 1..n |-> k]

HasQuery(h) == \E j \in 1..Len(h) : h[j] = "?"

\* scheme, "//" and a host
IsAbsolute(u) ==
  Len(u) >= 4 /\ u[1] = "https:" /\ u[2] = "/" /\ u[3] = "/" /\ u[4] = "www.avito.ma"

\* Positions of get_links, and of the calls made on the browsing session.
GetLinksPcs == {"get_links", "scan", "page_end"}
SessionPcs == {"nav", "h1", "scroll", "expand", "poll", "extract", "source"}

\* C1: every link is attempted exactly once, in discovery order, whatever
\* links fail with an Exception; the records collected are those of the links
\* whose processing returned a record, in link order; when main reaches
\* save_csv every link has been attempted.
C1_FailureIsolation ==
  /\ attempted = Upto(Len(attempted))
  /\ Len(attempted) <= Len(links)
  /\ pc \in SessionPcs \cup {"sleep"} => (i = Len(attempted) /\ i <= Len(links))
  /\ Len(results) = Len(succeeded)
  /\ \A k \in 1..Len(succeeded) :
        /\ succeeded[k] \in 1..Len(attempted)
        /\ results[k].url = links[succeeded[k]]
        /\ \A j \in 1..(k - 1) : succeeded[j] < succeeded[k]
  /\ pc = "save" => attempted = Upto(Len(links))

\* C1 witness: three links, the second fails, the first and third are kept.
C1_Witness ==
  /\ pc = "save"
  /\ Len(links) = 3
  /\ succeeded = <<1, 3>>
  /\ Len(results) = 2
  /\ results[1].url = links[1]
  /\ results[2].url = links[3]

\* C2: once create_driver has returned, driver.quit is called exactly once
\* on every exit of the per-link loop, and no call is made on the session
\* after it was closed.
C2_SessionClosedOnce ==
  /\ quits <= 1
  /\ driver = "none" => quits = 0
  /\ driver = "open" => quits = 0
  /\ driver = "closed" => quits = 1
  /\ pc \in SessionPcs => driver = "open"
  /\ pc \in {"save", "done"} /\ driver # "none" => driver = "closed"
  /\ navs <= Len(attempted)

\* C2 witness: the run is aborted after a failed link and before the last
\* link, and the session has been closed once.
C2_Witness ==
  /\ pc = "done"
  /\ raised
  /\ quits = 1
  /\ driver = "closed"
  /\ Len(attempted) = 2
  /\ Len(links) = 3
  /\ succeeded = <<>>

C3_Safety ==
  /\ saveCalls <= 1
  /\ (pc = "done" /\ ~raised /\ links # <<>>) => (saveCalls = 1 /\ saved = results)
  /\ (pc = "done" /\ links = <<>>) => saveCalls = 0
  /\ saveCalls = 1 => (saved = results /\ driver = "closed" /\ links # <<>>)

C4_Bounds ==
  /\ fetches <= MAX_PAGES
  /\ hpolls <= H1_POLLS
  /\ pc = "h1" => hpolls < H1_POLLS
  /\ epolls <= EQUIP_POLLS
  /\ pc = "poll" => epolls < EQUIP_POLLS
  /\ Len(attempted) <= Len(links)
  /\ navs <= Len(links)

\* C4: at most MAX_PAGES fetches, at most 20 heading polls after which the
\* scroll step follows, at most 10 equipment-count polls, one pass of the
\* loop per link; and the run terminates.
C4_BoundedWaits == []C4_Bounds /\ <>(pc = "done")

\* C4 witness: MAX_PAGES pages were fetched and the heading never appeared in
\* 20 polls, and the scroll step is next.
C4_Witness ==
  /\ pc = "scroll"
  /\ hpolls = H1_POLLS
  /\ fetches = MAX_PAGES

\* C5: polling halts at the first poll k >= 2 whose count is nonzero and
\* equal to the count of poll k - 1, and otherwise after the 10th poll; it
\* never halts on a zero count before the 10th poll.
C5_PollHalts ==
  /\ pc = "poll" => (firstFix = 0 /\ epolls < EQUIP_POLLS)
  /\ pc = "extract" =>
       /\ epolls >= 1
       /\ IF firstFix # 0
          THEN epolls = firstFix /\ epolls >= 2 /\ curr_count > 0
          ELSE epolls = EQUIP_POLLS
       /\ epolls < EQUIP_POLLS => curr_count > 0

\* C5 witness: halted at the third poll on count 2.
C5_Witness ==
  /\ pc = "extract"
  /\ epolls = 3
  /\ curr_count = 2
  /\ firstFix = 3

\* C5 witness: no fixed point in 10 polls, last count zero.
C5_WitnessBound ==
  /\ pc = "extract"
  /\ epolls = EQUIP_POLLS
  /\ firstFix = 0
  /\ curr_count = 0

C6_Step ==
  /\ IsPrefix(links, links')
  /\ Len(links') <= Len(links) + 1
  /\ (pc = "scan" /\ scanned' = scanned + 1) =>
       LET r == Resolve(href') IN
       /\ MatchesDetail(r) => InSeq(SplitQuery(r), links')
       /\ links' # links =>
            /\ MatchesDetail(r)
            /\ links'[Len(links')] = SplitQuery(r)
            /\ ~InSeq(SplitQuery(r), links)
  /\ ~(pc = "scan" /\ scanned' = scanned + 1) => links' = links

\* C6: the list of links never holds a URL twice, and a URL enters it, at the
\* end, when an anchor carrying it is scanned for the first time; entries are
\* never moved or removed.
C6_UniqueInOrder == [](NoDuplicates(links)) /\ [][C6_Step]_vars

\* C6 witness: the second anchor of a page repeats, in another written form,
\* the URL of the first, and the list holds that URL once.
C6_Witness ==
  /\ pc = "scan"
  /\ scanned = 2
  /\ new_found = 1
  /\ Len(links) = 1
  /\ href # links[1]
  /\ MatchesDetail(Resolve(href))
  /\ SplitQuery(Resolve(href)) = links[1]

\* A detail-page URL carrying a query string.
IsDetailWithQuery(h) == HasQuery(h) /\ MatchesDetail(SplitQuery(h))

\* The no-query absolute form of a target.
NoQueryAbsolute(h) == Resolve(SplitQuery(h))

\* C7 as claimed: once an anchor whose target is a detail-page URL carrying a
\* query string has been scanned, its no-query absolute form is in the list.
C7_Claim ==
  (pc \in {"scan", "page_end"} /\ href # NoHref /\ IsDetailWithQuery(href))
     => InSeq(NoQueryAbsolute(href), links)

\* C8 as claimed: every link holds no query string and ends with an
\* underscore, digits and the .htm suffix.
C8_Claim ==
  \A k \in 1..Len(links) : ~HasQuery(links[k]) /\ MatchesDetail(links[k])

\* C9 as claimed: every link is an absolute URL.
C9_Claim == \A k \in 1..Len(links) : IsAbsolute(links[k])

C10_Step ==
  /\ (pc = "page_end" /\ new_found = 0) =>
        (pc' = "main" /\ links' = links /\ fetches' = fetches)
  /\ pc # "get_links" => fetches' = fetches
  /\ pc \notin GetLinksPcs => pc' \notin GetLinksPcs

C10_Pages ==
  /\ pc \in {"scan", "page_end"} => fetches = page
  /\ pc = "get_links" => fetches = page - 1
  /\ (pc = "main" /\ glExit = "zero") => (fetches = page /\ new_found = 0)

\* C10: once a fetched page has contributed no new link, get_links returns
\* the links gathered so far and no later page is fetched; page k is the
\* k-th fetch, so a page 2 without new links ends discovery after two fetches.
C10_StopsEarly == []C10_Pages /\ [][C10_Step]_vars

\* C10 witness: page 2 contributed nothing, two pages were fetched although
\* MAX_PAGES is larger, and the links of page 1 are returned.
C10_Witness ==
  /\ pc = "main"
  /\ glExit = "zero"
  /\ page = 2
  /\ fetches = 2
  /\ MAX_PAGES > 2
  /\ links # <<>>


C11_State ==
  glExit = "error" =>
     /\ pc = "main"
     /\ ~raised
     /\ fetches = page
     /\ page = 1 => links = <<>>

C11_Step ==
  /\ (glExit' = "error" /\ glExit # "error") =>
        (pc = "get_links" /\ links' = links /\ fetches' = fetches + 1)
  /\ pc \notin GetLinksPcs => (pc' \notin GetLinksPcs /\ fetches' = fetches)

\* C11: a request that fails on page k ends the page loop at once: page k was
\* the k-th and last request, no exception leaves get_links, and the links
\* gathered from the pages before k are returned unchanged (none when k = 1).
C11_FetchFailureAborts == []C11_State /\ [][C11_Step]_vars

\* C11 witness: the request for page 2 failed, MAX_PAGES is larger, and the
\* links of page 1 are returned.
C11_Witness ==
  /\ pc = "main"
  /\ glExit = "error"
  /\ page = 2
  /\ fetches = 2
  /\ MAX_PAGES > 2
  /\ links # <<>>


\* The sub-steps of fetch_page_with_selenium after the navigation.
LaterSteps == {"h1", "scroll", "expand", "poll", "extract"}

C16_Claim == (pc = "source" /\ failedStep = "extract") => equipments = <<>>


\* The positions of s that hold the first occurrence of a non-empty label.
FirstSeen(s) ==
  { k \in 1..Len(s) : s[k] # "" /\ \A j \in 1..(k - 1) : s[j] # s[k] }

\* t lists the non-empty labels of s once each, in first-seen order.
IsFirstSeenOf(t, s) ==
  /\ Len(t) = Cardinality(FirstSeen(s))
  /\ \A k \in FirstSeen(s) :
        t[Cardinality({ j \in FirstSeen(s) : j <= k })] = s[k]

C17_State ==
  /\ pc \in SessionPcs \ {"source"} => equipments = <<>> /\ readImgs = <<>>
  /\ pc = "source" =>
        /\ IsFirstSeenOf(equipments, readImgs)
        /\ NoDuplicates(equipments)
        /\ ~InSeq("", equipments)

C17_Step ==
  /\ pc' = "nav" => pc = "loop"
  /\ pc' = "h1" => pc \in {"nav", "h1"}
  /\ pc' = "scroll" => pc = "h1"
  /\ pc' = "expand" => pc = "scroll"
  /\ pc' = "poll" => pc \in {"expand", "poll"}
  /\ pc' = "extract" => pc = "poll"
  /\ pc' = "source" => pc = "extract"
  /\ pc \in SessionPcs => pc' \in SessionPcs \cup {"sleep", "finally"}
  /\ navs' # navs => pc = "nav" /\ navs' = navs + 1
  /\ readImgs' # <<>> => pc = "extract"
  /\ results' # results /\ results' # <<>> =>
        /\ pc = "source"
        /\ results' = Append(results, Record(links[i], equipments))

\* C17: the steps of one page run in the order navigate, heading wait,
\* scroll, expand, count polling, label extraction, page source, none skipped
\* or reordered; the labels are read by a query made after the polling and
\* before the page source is taken, and the labels returned are those read,
\* once each, in first-seen order.
C17_FixedProtocol == []C17_State /\ [][C17_Step]_vars

\* C17 witness: the extraction read MaxImgs images without error and the
\* returned labels are fewer (an empty or a repeated label was dropped), and
\* the page source is next.
C17_Witness ==
  /\ pc = "source"
  /\ failedStep = "none"
  /\ Len(readImgs) = MaxImgs
  /\ equipments # <<>>
  /\ Len(equipments) < Len(readImgs)


C18_Step ==
  /\ (fetches' # fetches /\ fetches >= 1) => paced
  /\ (navs' # navs /\ navs >= 1) => paced
  /\ (i' # i /\ i >= 1) => (pc = "sleep" /\ i' = i + 1 /\ paced')
  /\ (pc = "page_end" /\ pc' = "get_links") => paced'

\* C18: every listing-page request after the first and every detail-page
\* navigation after the first is preceded by a pause taken since the previous
\* request, and the loop of main() moves to the next link only through the
\* pause, whether the link succeeded or failed.
C18_Paced == [][C18_Step]_vars

\* C18 witness: the first link failed, the pause was taken and the second
\* navigation is next; discovery made at least two requests.
C18_Witness ==
  /\ pc = "nav"
  /\ i = 2
  /\ paced
  /\ ~InSeq(1, succeeded)
  /\ fetches >= 2


\* C19: the number of links gathered never exceeds MAX_LINKS.
C19_Claim == Len(links) <= MAX_LINKS

\* C20: at the end of the run every browser that was launched has been
\* closed, and no browser is launched when discovery returned no link.
C20_Claim ==
  /\ pc = "done" => quits = browsers
  /\ links = <<>> => browsers = 0


\* ================================================= functions on their own
\* clean_text, parse_publication_date and parse_publication are functions of
\* their arguments.  PureSpec calls one of them once on an argument drawn
\* from a bounded set.  A Python string is a sequence of characters.

\* Longest argument of clean_text.
MaxText == 4

\* Characters of the texts: a letter, and whitespace of several kinds.
Chars == {"a", " ", "\n", "\r", "\t", "\f"}

\* What \s matches and what strip() removes.
Whitespace == {" ", "\n", "\r", "\t", "\f"}

PyNone == [kind |-> "None"]
PyStr(s) == [kind |-> "str", chars |-> s]

\* if not value: None and the empty string are falsy
Falsy(value) == value.kind = "None" \/ (value.kind = "str" /\ value.chars = <<>>)

\* value.replace("\n", " ").replace("\r", " ").replace("\t", " ")
ReplaceControls(s) ==
  [k \in 1..Len(s) |-> IF s[k] \in {"\n", "\r", "\t"} THEN " " ELSE s[k]]

\* lstrip(): the text from its first non-whitespace character on
RECURSIVE LStrip(_)
LStrip(s) ==
  IF s # <<>> /\ Head(s) \in Whitespace THEN LStrip(Tail(s)) ELSE s

\* rstrip(): the text up to its last non-whitespace character
RECURSIVE RStrip(_)
RStrip(s) ==
  IF s # <<>> /\ s[Len(s)] \in Whitespace
  THEN RStrip(SubSeq(s, 1, Len(s) - 1))
  ELSE s

\* value.strip()
Strip(s) == LStrip(RStrip(s))

\* Faulty variant of CollapseSpaces: the pattern is \s, so each whitespace
\* character is replaced on its own.
CollapseEach(s) ==
  [k \in 1..Len(s) |-> IF s[k] \in Whitespace THEN " " ELSE s[k]]

\* re.sub(r"\s+", " ", value): every maximal run of whitespace becomes " "
RECURSIVE CollapseSpaces(_)
CollapseSpaces(s) ==
  IF s = <<>>
  THEN <<>>
  ELSE IF Head(s) \in Whitespace
       THEN <<" ">> \o CollapseSpaces(LStrip(Tail(s)))
       ELSE <<Head(s)>> \o CollapseSpaces(Tail(s))

\* clean_text(value): the characters of the string returned
clean_text(value) ==
  IF Falsy(value)
  THEN <<>>
  ELSE Strip(CollapseSpaces(ReplaceControls(value.chars)))

\* Arguments of clean_text.
CleanTextArgs == {PyNone} \cup { PyStr(s) : s \in SeqsUpTo(Chars, MaxText) }

\* A call of clean_text(arg)
CleanTextCall ==
  /\ call = "clean_text"
  /\ ~returned
  /\ ret' = PyStr(clean_text(arg))
  /\ returned' = TRUE
  /\ UNCHANGED << pc, call, arg >>
  /\ UNCHANGED glVars
  /\ UNCHANGED mainVars
  /\ UNCHANGED fetchVars
  /\ UNCHANGED ghostVars


\* ------------------------------------------------- parse_publication_date
\* Most words of the visible text of a <time> element.
MaxWords == 2

\* Words the text of a <time> element is made of.
TimeWords ==
  { <<"3">>,
    <<"3", "0", "0", "0">>,
    <<"m", "i", "n", "u", "t", "e", "s">>,
    <<"H", "e", "u", "r", "e", "s">>,
    <<"j", "o", "u", "r", "s">>,
    <<"m", "o", "i", "s">>,
    <<"a", "n", "s">>,
    <<"H", "i", "e", "r">> }

\* The words joined by line breaks, as get_text() returns them.
RECURSIVE JoinWords(_)
JoinWords(ws) ==
  IF ws = <<>>
  THEN <<>>
  ELSE IF Len(ws) = 1
       THEN Head(ws)
       ELSE Head(ws) \o <<"\n">> \o JoinWords(Tail(ws))

TimeTexts == { JoinWords(ws) : ws \in SeqsUpTo(TimeWords, MaxWords) }

\* str.lower(): "H" is the upper-case letter of the texts
Lower(s) == [k \in 1..Len(s) |-> IF s[k] = "H" THEN "h" ELSE s[k]]

\* kw in text
Contains(text, kw) ==
  \E k \in 1..(Len(text) - Len(kw) + 1) : SubSeq(text, k, k + Len(kw) - 1) = kw

DecimalDigits == {"0", "1", "2", "3", "4", "5", "6", "7", "8", "9"}

DigitValue(c) ==
  CASE c = "0" -> 0 [] c = "1" -> 1 [] c = "2" -> 2 [] c = "3" -> 3
    [] c = "4" -> 4 [] c = "5" -> 5 [] c = "6" -> 6 [] c = "7" -> 7
    [] c = "8" -> 8 [] c = "9" -> 9

\* int(digits), digits read from position k on with acc the value so far
RECURSIVE IntFrom(_, _, _)
IntFrom(text, k, acc) ==
  IF k <= Len(text) /\ text[k] \in DecimalDigits
  THEN IntFrom(text, k + 1, acc * 10 + DigitValue(text[k]))
  ELSE acc

\* match = re.search(r"\d+", text); n = int(match.group()) if match else 1
FirstInteger(text) ==
  LET at == { k \in 1..Len(text) : text[k] \in DecimalDigits }
  IN IF at = {}
     THEN 1
     ELSE IntFrom(text, CHOOSE k \in at : \A j \in at : k <= j, 0)

KwMinute == <<"m", "i", "n", "u", "t", "e">>
KwHeure == <<"h", "e", "u", "r", "e">>
KwJour == <<"j", "o", "u", "r">>
KwMois == <<"m", "o", "i", "s">>
KwAn == <<"a", "n">>

\* A timedelta is its length in minutes; NoDelta is the final else branch.
TimeDelta(m) == [kind |-> "timedelta", minutes |-> m]
NoDelta == [kind |-> "none"]

\* Faulty variant of Delta: "an" is tested before "mois".
DeltaAnBeforeMois(text, n) ==
  IF Contains(text, KwMinute) THEN TimeDelta(n)
  ELSE IF Contains(text, KwHeure) THEN TimeDelta(n * 60)
  ELSE IF Contains(text, KwJour) THEN TimeDelta(n * 1440)
  ELSE IF Contains(text, KwAn) THEN TimeDelta(n * 365 * 1440)
  ELSE IF Contains(text, KwMois) THEN TimeDelta(n * 30 * 1440)
  ELSE NoDelta

\* The if/elif chain over "minute", "heure", "jour", "mois", "an"
Delta(text, n) ==
  IF Contains(text, KwMinute) THEN TimeDelta(n)
  ELSE IF Contains(text, KwHeure) THEN TimeDelta(n * 60)
  ELSE IF Contains(text, KwJour) THEN TimeDelta(n * 1440)
  ELSE IF Contains(text, KwMois) THEN TimeDelta(n * 30 * 1440)
  ELSE IF Contains(text, KwAn) THEN TimeDelta(n * 365 * 1440)
  ELSE NoDelta

\* A datetime is the ordinal of its day (1 is 0001-01-01, the earliest date
\* there is) and the minute of that day; the subtractions leave its seconds
\* alone.
DateTime(d, m) == [kind |-> "datetime", day |-> d, minute |-> m]

\* Minutes from 0001-01-01 00:00 to dt.
Total(dt) == (dt.day - 1) * 1440 + dt.minute

\* now - timedelta: OverflowError when the result is before 0001-01-01
Minus(now, delta) ==
  LET t == Total(now) - delta.minutes
  IN IF t < 0
     THEN [kind |-> "raise"]
     ELSE DateTime((t \div 1440) + 1, t % 1440)

\* dt.strftime("%Y-%m-%d %H:%M:%S"): the text that spells dt out
Formatted(dt) == [kind |-> "strftime", day |-> dt.day, minute |-> dt.minute]

\* datetime.now(): 2026-11-02 10:15 and 00:05
Nows == { DateTime(739922, 615), DateTime(739922, 5) }

\* What a valid datetime attribute parses to: 2026-10-11 00:00
AttrDate == DateTime(739900, 0)

\* soup.find("time"): no element, or its datetime attribute (absent, in ISO
\* format, or not) and its text.
NoTimeTag == [present |-> FALSE]
TimeTags ==
  {NoTimeTag} \cup
  [present : {TRUE}, datetime : {"absent", "iso", "invalid"}, text : TimeTexts]

\* The fallback of parse_publication_date: the try block and its except.
Fallback(text, now) ==
  LET delta == Delta(text, FirstInteger(text))
      dt == IF delta = NoDelta THEN NoDelta ELSE Minus(now, delta)
  IN IF dt.kind = "datetime" THEN Formatted(dt) ELSE PyStr(text)

\* parse_publication_date(soup), soup holding the time element tag
parse_publication_date(tag, now) ==
  IF ~tag.present
  THEN PyStr(<<>>)
  ELSE IF tag.datetime = "iso"
       THEN Formatted(AttrDate)
       ELSE Fallback(Lower(clean_text(PyStr(tag.text))), now)

\* Arguments of parse_publication_date, with the clock it reads.
DateArgs == [tag : TimeTags, now : Nows]

\* A call of parse_publication_date(arg.tag) at time arg.now
ParsePublicationDateCall ==
  /\ call = "parse_publication_date"
  /\ ~returned
  /\ ret' = parse_publication_date(arg.tag, arg.now)
  /\ returned' = TRUE
  /\ UNCHANGED << pc, call, arg >>
  /\ UNCHANGED glVars
  /\ UNCHANGED mainVars
  /\ UNCHANGED fetchVars
  /\ UNCHANGED ghostVars


\* ------------------------------------------------------ parse_publication
\* Most <li> items of the first <ol>, most property blocks and most <img>
\* elements of a document.
MaxLis == 1
MaxBlocks == 1
MaxSrcs == 2

\* The text of every marker that is present, before normalisation.
RawText == <<" ", "a", "\n", "a">>

\* The markers whose field is clean_text(element.get_text()).
TextMarkers == {"title", "price", "location", "seller", "description"}

\* The <time> element of a document that has one.
DocTimeTag ==
  [present |-> TRUE, datetime |-> "absent",
   text |-> <<"3">> \o <<"\n">> \o <<"j", "o", "u", "r", "s">>]

\* The markers of a document: the text markers present, the time element,
\* and the category label with or without a span after it.
NoMarkup == [marks |-> {}, time |-> NoTimeTag, category |-> "none"]
Markups ==
  {NoMarkup}
    \cup { [NoMarkup EXCEPT !.marks = {m}] : m \in TextMarkers }
    \cup { [NoMarkup EXCEPT !.time = DocTimeTag] }
    \cup { [NoMarkup EXCEPT !.category = c] : c \in {"label", "label+value"} }
    \cup { [marks |-> TextMarkers, time |-> DocTimeTag, category |-> "label+value"] }

HomeIcon == <<"H", "o", "m", "e", " ", "I", "c", "o", "n">>

\* Texts of the <li> items.
LiTexts == { HomeIcon, HomeIcon \o <<" ", "a">> }

\* The first <ol>: none, or its items.
NoOl == [present |-> FALSE]
Ols == {NoOl} \cup [present : {TRUE}, items : SeqsUpTo(LiTexts, MaxLis)]

\* A property block: whether it holds the label span and the value span.
Blocks == [label : BOOLEAN, value : BOOLEAN]
PropLabel == <<"l">>

\* src attributes of the <img> elements: an asset, a card thumbnail of the
\* asset host, an image of another host.
Srcs ==
  { <<"https:", "/", "/", "content.avito.ma", "/", "a.jpg">>,
    <<"https:", "/", "/", "content.avito.ma", "/", "a.jpg", "?t=card">>,
    <<"https:", "/", "/", "other.host", "/", "a.jpg">> }

\* driver.page_source, as far as parse_publication reads it.
EmptyHtml == [empty |-> TRUE]
Htmls ==
  {EmptyHtml} \cup
  [empty : {FALSE}, markup : Markups, ol : Ols,
   blocks : SeqsUpTo(Blocks, MaxBlocks), imgs : SeqsUpTo(Srcs, MaxSrcs)]

\* str(uuid.uuid4())
Uuids == { <<"uuid", "1">>, <<"uuid", "2">> }

\* json.dumps(value, ensure_ascii=False): the text that encodes value
JsonDumps(value) == [kind |-> "json", of |-> value]

\* Faulty variant of FieldText: get_text() is called on a missing element.
FieldTextUnguarded(html, m) ==
  IF m \in html.markup.marks
  THEN PyStr(clean_text(PyStr(RawText)))
  ELSE [kind |-> "raise"]

\* clean_text(el.get_text()) if el else ""
FieldText(html, m) ==
  IF m \in html.markup.marks
  THEN PyStr(clean_text(PyStr(RawText)))
  ELSE PyStr(<<>>)

\* cat_label, cat_val = cat_label.find_next("span")
Category(html) ==
  IF html.markup.category = "label+value"
  THEN PyStr(clean_text(PyStr(RawText)))
  ELSE PyStr(<<>>)

\* re.sub(r"Home Icon", "", text)
RECURSIVE RemoveAll(_, _)
RemoveAll(text, pat) ==
  IF Len(text) < Len(pat)
  THEN text
  ELSE IF SubSeq(text, 1, Len(pat)) = pat
       THEN RemoveAll(SubSeq(text, Len(pat) + 1, Len(text)), pat)
       ELSE <<Head(text)>> \o RemoveAll(Tail(text), pat)

\* for li in ol.find_all("li"): ... if text: breadcrumb.append(text)
RECURSIVE LiLoop(_, _)
LiLoop(items, breadcrumb) ==
  IF items = <<>>
  THEN breadcrumb
  ELSE LET text == Strip(RemoveAll(clean_text(PyStr(Head(items))), HomeIcon))
       IN LiLoop(Tail(items),
                 IF text # <<>> THEN Append(breadcrumb, text) ELSE breadcrumb)

Breadcrumb(html) == IF html.ol.present THEN LiLoop(html.ol.items, <<>>) ELSE <<>>

\* properties[label] = value
SetItem(d, k, v) == [x \in DOMAIN d \cup {k} |-> IF x = k THEN v ELSE d[x]]

EmptyDict == [x \in {} |-> x]

\* for param in soup.find_all("div", ...): if value and label: ...
RECURSIVE PropLoop(_, _)
PropLoop(blocks, properties) ==
  IF blocks = <<>>
  THEN properties
  ELSE PropLoop(Tail(blocks),
                IF Head(blocks).value /\ Head(blocks).label
                THEN SetItem(properties, clean_text(PyStr(PropLabel)),
                             clean_text(PyStr(RawText)))
                ELSE properties)

\* for img in soup.find_all("img"): the filter on src
RECURSIVE ImgLoop(_, _)
ImgLoop(imgs, images) ==
  IF imgs = <<>>
  THEN images
  ELSE LET src == Head(imgs)
       IN ImgLoop(Tail(imgs),
                  IF /\ src # <<>>
                     /\ InSeq("content.avito.ma", src)
                     /\ ~InSeq("?t=card", src)
                     /\ ~InSeq(src, images)
                  THEN Append(images, src)
                  ELSE images)

\* The dict built by parse_publication.
Data(html, eq, url, id, now) ==
  [id |-> PyStr(id),
   url |-> PyStr(url),
   title |-> FieldText(html, "title"),
   price |-> FieldText(html, "price"),
   location |-> FieldText(html, "location"),
   publication_time |-> parse_publication_date(html.markup.time, now),
   seller |-> FieldText(html, "seller"),
   category |-> Category(html),
   description |-> FieldText(html, "description"),
   breadcrumb |-> JsonDumps(Breadcrumb(html)),
   properties |-> JsonDumps(PropLoop(html.blocks, EmptyDict)),
   equipments |-> JsonDumps(eq),
   images |-> JsonDumps(ImgLoop(html.imgs, <<>>))]

PyDict(d) == [kind |-> "dict", data |-> d]

\* parse_publication(driver, url), given what fetch_page_with_selenium
\* returned: if not html: return None
parse_publication(html, eq, url, id, now) ==
  IF html.empty THEN PyNone ELSE PyDict(Data(html, eq, url, id, now))

\* Arguments of parse_publication: the document and the labels returned by
\* fetch_page_with_selenium, the url, and the clock.
PubArgs ==
  [html : Htmls, equipments : {<<>>, <<"wifi">>},
   url : {BASE_URL \o <<"/", "a", "_", "1", ".htm">>},
   now : {DateTime(739922, 615)}]

\* A call of parse_publication
ParsePublicationCall ==
  /\ call = "parse_publication"
  /\ ~returned
  /\ \E id \in Uuids :
       ret' = parse_publication(arg.html, arg.equipments, arg.url, id, arg.now)
  /\ returned' = TRUE
  /\ UNCHANGED << pc, call, arg >>
  /\ UNCHANGED glVars
  /\ UNCHANGED mainVars
  /\ UNCHANGED fetchVars
  /\ UNCHANGED ghostVars

\* ------------------------------------------------------------- PureSpec
PureInit ==
  /\ pc = "call"
  /\ MainStart
  /\ \/ call = "clean_text" /\ arg \in CleanTextArgs
     \/ call = "parse_publication_date" /\ arg \in DateArgs
     \/ call = "parse_publication" /\ arg \in PubArgs
  /\ ret = NoValue
  /\ returned = FALSE

PureNext ==
  \/ CleanTextCall
  \/ ParsePublicationDateCall
  \/ ParsePublicationCall

PureSpec == PureInit /\ [][PureNext]_vars


\* ------------------------------------------------ properties: clean_text
NoDoubleSpace(s) == \A k \in 1..(Len(s) - 1) : ~(s[k] = " " /\ s[k + 1] = " ")

\* C15: clean_text applied to its own result returns it unchanged; None and
\* the empty string give the empty string; the result holds no newline,
\* carriage return or tab, no two consecutive spaces, and no whitespace at
\* either end.
C15_CleanText ==
  (call = "clean_text" /\ returned) =>
     /\ ret.kind = "str"
     /\ clean_text(ret) = ret.chars
     /\ Falsy(arg) => ret.chars = <<>>
     /\ \A k \in 1..Len(ret.chars) : ret.chars[k] \notin {"\n", "\r", "\t"}
     /\ NoDoubleSpace(ret.chars)
     /\ ret.chars # <<>> =>
           /\ ret.chars[1] \notin Whitespace
           /\ ret.chars[Len(ret.chars)] \notin Whitespace

\* C15 witness: a text that starts with whitespace and holds a newline
\* between letters came back as "a a".
C15_Witness ==
  /\ call = "clean_text"
  /\ returned
  /\ arg.kind = "str"
  /\ Len(arg.chars) > Len(ret.chars)
  /\ arg.chars[1] \in Whitespace
  /\ InSeq("\n", arg.chars)
  /\ ret.chars = <<"a", " ", "a">>

\* ------------------------------------ properties: parse_publication_date
\* The call is one whose time element has no parseable datetime attribute.
InFallback ==
  /\ call = "parse_publication_date"
  /\ returned
  /\ arg.tag.present
  /\ arg.tag.datetime # "iso"

Normalized == clean_text(PyStr(arg.tag.text))

KeywordOrder == << KwMinute, KwHeure, KwJour, KwMois, KwAn >>

\* Minutes in one unit of each keyword: minute, hour, day, 30 days, 365 days.
UnitMinutes == << 1, 60, 1440, 30 * 1440, 365 * 1440 >>

KeywordsPresent ==
  { k \in 1..Len(KeywordOrder) : Contains(Lower(Normalized), KeywordOrder[k]) }

FirstKeyword == CHOOSE k \in KeywordsPresent : \A j \in KeywordsPresent : k <= j

\* now minus N units of the first keyword, in minutes from 0001-01-01 00:00.
Target ==
  Total(arg.now) - FirstInteger(Lower(Normalized)) * UnitMinutes[FirstKeyword]

SpelledOut(t) == Formatted(DateTime((t \div 1440) + 1, t % 1440))

\* C14 as stated: with a keyword present the result is now minus N units of
\* the first keyword in the order minute, heure, jour, mois, an; with none
\* the normalised text is returned (in its own or in lower case).
C14_Original ==
  InFallback =>
     IF KeywordsPresent = {}
     THEN ret \in {PyStr(Normalized), PyStr(Lower(Normalized))}
     ELSE Target >= 0 /\ ret = SpelledOut(Target)

\* C14 amended: with a keyword present and now minus N units not before
\* 0001-01-01, the result is that date; otherwise (no keyword, or a date out
\* of range) it is the normalised text in lower case; a string is returned
\* in every case.
C14_Amended ==
  /\ (call = "parse_publication_date" /\ returned) =>
        ret.kind \in {"str", "strftime"}
  /\ InFallback =>
        IF KeywordsPresent # {} /\ Target >= 0
        THEN ret = SpelledOut(Target)
        ELSE ret = PyStr(Lower(Normalized))

\* C14 witness: the text holds "ans" and a number of years that reaches
\* before 0001-01-01, and the lower-cased text came back.
C14_Witness ==
  /\ InFallback
  /\ KeywordsPresent = {5}
  /\ Target < 0
  /\ ret = PyStr(Lower(Normalized))

\* ----------------------------------------- properties: parse_publication
RecordKeys ==
  {"id", "url", "title", "price", "location", "publication_time",
   "breadcrumb", "category", "seller", "description", "properties",
   "equipments", "images"}

\* The fields of a record whose markup is absent hold their empty default.
DefaultsFilled(html, d) ==
  /\ \A m \in TextMarkers \ html.markup.marks : d[m] = PyStr(<<>>)
  /\ ~html.markup.time.present => d.publication_time = PyStr(<<>>)
  /\ html.markup.category # "label+value" => d.category = PyStr(<<>>)
  /\ (~html.ol.present \/ html.ol.items = <<>>) => d.breadcrumb = JsonDumps(<<>>)
  /\ html.blocks = <<>> => d.properties = JsonDumps(EmptyDict)
  /\ html.imgs = <<>> => d.images = JsonDumps(<<>>)
  /\ d.id.chars # <<>>
  /\ d.url.chars # <<>>

ReturnsRecord ==
  /\ ret.kind = "dict"
  /\ DOMAIN ret.data = RecordKeys
  /\ DefaultsFilled(arg.html, ret.data)
  /\ ret.data.url = PyStr(arg.url)
  /\ ret.data.equipments = JsonDumps(arg.equipments)

\* C13 as stated: for every document, the empty one included, a record with
\* exactly the 13 keys is returned, absent markup giving the empty default.
C13_Original ==
  (call = "parse_publication" /\ returned) =>
     /\ ret.kind = "dict"
     /\ DOMAIN ret.data = RecordKeys
     /\ ~arg.html.empty => ReturnsRecord

\* C13 amended: for every non-empty document a record with exactly the 13
\* keys is returned, absent markup giving the empty default; for the empty
\* document None is returned.
C13_Amended ==
  (call = "parse_publication" /\ returned) =>
     IF arg.html.empty THEN ret = PyNone ELSE ReturnsRecord

\* C13 witness: a non-empty document with every optional marker missing gave
\* a record.
C13_Witness ==
  /\ call = "parse_publication"
  /\ returned
  /\ ~arg.html.empty
  /\ arg.html.markup = NoMarkup
  /\ ~arg.html.ol.present
  /\ arg.html.blocks = <<>>
  /\ arg.html.imgs = <<>>
  /\ ret.kind = "dict"

====
